---- MODULE Spec2Model ----
(***************************************************************************)
(* Model of the test-lsp language server (src/src/main.rs): the lexer      *)
(* `Token`, the completion helper `pos_to_words_of_line`, and the message  *)
(* dispatch of `main_loop` over the document map `contents`.               *)
(*                                                                         *)
(* A Rust `String`/`&str` is modelled as the sequence of its UTF-8 bytes,  *)
(* each byte a one-element name ("a", " ", "\n", ...).  The two bytes of   *)
(* the two-byte character U+00E9 are named "C3" (lead) and "A9"            *)
(* (continuation); every text of the model is valid UTF-8.                 *)
(***************************************************************************)
EXTENDS Integers, Sequences, FiniteSets, TLC

VARIABLES state, contents, sent, log, answered, lexSrc, lexOut

vars == <<state, contents, sent, log, answered, lexSrc, lexOut>>

(***************************************************************************)
(* Bounds of the model.                                                    *)
(***************************************************************************)
\* number of inbound messages the session receives in one behaviour
MaxMsgs == 3
\* length in bytes of the strings handed to the lexer in LexSpec
MaxLen == 4

(***************************************************************************)
(* Bytes and characters.                                                   *)
(***************************************************************************)
\* the character class [a-zA-Z_0-9] of Token::Word (main.rs:20)
WordChars ==
    { "a", "b", "c", "d", "e", "f", "g", "h", "i", "j", "k", "l", "m",
      "n", "o", "p", "q", "r", "s", "t", "u", "v", "w", "x", "y", "z",
      "A", "B", "C", "D", "E", "F", "G", "H", "I", "J", "K", "L", "M",
      "N", "O", "P", "Q", "R", "S", "T", "U", "V", "W", "X", "Y", "Z",
      "_", "0", "1", "2", "3", "4", "5", "6", "7", "8", "9" }

\* lead bytes of two-byte UTF-8 characters, and continuation bytes
LeadBytes == { "C3" }
ContBytes == { "A9" }

\* number of bytes of the character that starts with byte b
CharWidth(b) == IF b \in LeadBytes THEN 2 ELSE 1

\* str::is_char_boundary for a byte offset i (0-based) of s
IsCharBoundary(s, i) ==
    \/ i = 0
    \/ i = Len(s)
    \/ (i < Len(s) /\ s[i + 1] \notin ContBytes)

\* s is the UTF-8 encoding of some string: every lead byte is followed by
\* one continuation byte and no continuation byte stands alone
ValidUtf8(s) ==
    \A i \in 1..Len(s) :
        /\ (s[i] \in LeadBytes) => (i < Len(s) /\ s[i + 1] \in ContBytes)
        /\ (s[i] \in ContBytes) => (i > 1 /\ s[i - 1] \in LeadBytes)

(***************************************************************************)
(* The lexer derived for Token (main.rs:18-24).                            *)
(***************************************************************************)
\* a variant that is not greedy: a Word ends after one byte
WordEndOneByte(s, p) == p + 1

\* [a-zA-Z_0-9]+ is greedy: the index after the last byte of the run that
\* starts at p
RECURSIVE WordEnd(_, _)
WordEnd(s, p) ==
    IF p <= Len(s) /\ s[p] \in WordChars THEN WordEnd(s, p + 1) ELSE p

\* the token the lexer produces at byte index p (1-based) of s, with the
\* index where the next token starts
WordRunAt(s, p) ==
    [kind |-> "Word", slice |-> SubSeq(s, p, WordEnd(s, p) - 1),
     next |-> WordEnd(s, p)]

SymbolAt(s, p) ==
    [kind |-> "Symbol", slice |-> SubSeq(s, p, p + CharWidth(s[p]) - 1),
     next |-> p + CharWidth(s[p])]

TokenAt(s, p) ==
    IF s[p] \in WordChars THEN WordRunAt(s, p)
    ELSE IF s[p] \notin WordChars THEN SymbolAt(s, p)
    ELSE [kind |-> "Error", slice |-> SubSeq(s, p, p + CharWidth(s[p]) - 1),
          next |-> p + CharWidth(s[p])]

\* a variant that skips white space between tokens
RECURSIVE LexFromSkippingSpace(_, _)
LexFromSkippingSpace(s, p) ==
    IF p > Len(s) THEN << >>
    ELSE IF s[p] \in { " ", "\n" } THEN LexFromSkippingSpace(s, p + 1)
    ELSE LET t == TokenAt(s, p)
         IN  << [kind |-> t.kind, slice |-> t.slice] >>
                 \o LexFromSkippingSpace(s, t.next)

\* Token::lexer(s) run to its end: the sequence of Ok(token)/Err items
RECURSIVE LexFrom(_, _)
LexFrom(s, p) ==
    IF p > Len(s) THEN << >>
    ELSE LET t == TokenAt(s, p)
         IN  << [kind |-> t.kind, slice |-> t.slice] >> \o LexFrom(s, t.next)

Lexer(s) == LexFrom(s, 1)

(***************************************************************************)
(* str::lines: split at "\n", a "\r" right before the "\n" is dropped,     *)
(* and a final line terminator does not start another line.                *)
(***************************************************************************)
RECURSIVE LineEnd(_, _)
LineEnd(s, p) ==
    IF p > Len(s) \/ s[p] = "\n" THEN p ELSE LineEnd(s, p + 1)

StripCr(l, terminated) ==
    IF terminated /\ Len(l) > 0 /\ l[Len(l)] = "\r"
    THEN SubSeq(l, 1, Len(l) - 1) ELSE l

RECURSIVE LinesFrom(_, _)
LinesFrom(s, p) ==
    IF p > Len(s) THEN << >>
    ELSE LET e == LineEnd(s, p)
         IN  << StripCr(SubSeq(s, p, e - 1), e <= Len(s)) >>
                 \o LinesFrom(s, e + 1)

\* a variant that splits at every "\n": a final line terminator starts
\* another, empty line
RECURSIVE LinesSplitFrom(_, _)
LinesSplitFrom(s, p) ==
    IF p > Len(s) THEN << << >> >>
    ELSE LET e == LineEnd(s, p)
         IN  IF e > Len(s) THEN << SubSeq(s, p, e - 1) >>
             ELSE << StripCr(SubSeq(s, p, e - 1), TRUE) >>
                     \o LinesSplitFrom(s, e + 1)

LinesSplit(s) == LinesSplitFrom(s, 1)

Lines(s) == LinesFrom(s, 1)

(***************************************************************************)
(* pos_to_words_of_line (main.rs:197-213) with the filter closure of       *)
(* main_loop (main.rs:126-129).                                            *)
(***************************************************************************)
\* the closure passed by main_loop: Word(w) => Some(w), Symbol(_) => None
WordFilter(tok) == tok.kind = "Word"

\* filter_map over the lexer items: Ok(v) => filter(v), Err(_) => None
RECURSIVE FilterMap(_)
FilterMap(toks) ==
    IF toks = << >> THEN << >>
    ELSE IF Head(toks).kind # "Error" /\ WordFilter(Head(toks))
         THEN << Head(toks).slice >> \o FilterMap(Tail(toks))
         ELSE FilterMap(Tail(toks))

\* a variant that also refuses the offset at the end of the line
SliceToStrict(s, character) ==
    IF character < Len(s) /\ IsCharBoundary(s, character)
    THEN [tag |-> "Ok", str |-> SubSeq(s, 1, character)]
    ELSE [tag |-> "Panic", str |-> << >>]

\* &s[..character]: panics unless character <= s.len() and character is
\* on a character boundary
SliceTo(s, character) ==
    IF character <= Len(s) /\ IsCharBoundary(s, character)
    THEN [tag |-> "Ok", str |-> SubSeq(s, 1, character)]
    ELSE [tag |-> "Panic", str |-> << >>]

\* a variant that indexes the lines and so panics when there is no such line
pos_to_words_of_line_Indexed(line, character, text) ==
    LET ls == Lines(text)
    IN  IF line >= Len(ls) THEN [tag |-> "Panic", words |-> << >>]
        ELSE LET ctx == SliceTo(ls[line + 1], character)
             IN  IF ctx.tag = "Panic" THEN [tag |-> "Panic", words |-> << >>]
                 ELSE [tag |-> "Some", words |-> FilterMap(Lexer(ctx.str))]

\* the Option<Vec<&str>> returned, or the panic of the slice
pos_to_words_of_line(line, character, text) ==
    LET ls == Lines(text)
    IN  IF line >= Len(ls) THEN [tag |-> "None", words |-> << >>]
        ELSE LET ctx == SliceTo(ls[line + 1], character)
             IN  IF ctx.tag = "Panic" THEN [tag |-> "Panic", words |-> << >>]
                 ELSE [tag |-> "Some", words |-> FilterMap(Lexer(ctx.str))]

\* a variant that collects into a Vec: every occurrence is kept
VecCollect(ws) == ws

\* collect::<IndexSet<&str>>(): insertion order, an equal element is not
\* inserted again
RECURSIVE IndexSetFrom(_, _)
IndexSetFrom(acc, ws) ==
    IF ws = << >> THEN acc
    ELSE IF \E i \in 1..Len(acc) : acc[i] = Head(ws)
         THEN IndexSetFrom(acc, Tail(ws))
         ELSE IndexSetFrom(Append(acc, Head(ws)), Tail(ws))

IndexSetCollect(ws) == IndexSetFrom(<< >>, ws)

\* the CompletionItem built for one word (main.rs:138-145)
CompletionItem(w) ==
    [label |-> w, kind |-> "TEXT",
     documentation |-> "An AI suggested completion"]

CompletionArray(words) == [i \in 1..Len(words) |-> CompletionItem(words[i])]

(***************************************************************************)
(* Inbound messages.  A message is one lsp_server::Message; wellFormed     *)
(* says whether its params deserialize into the params type of its method. *)
(***************************************************************************)
Docs == { "file:///d", "file:///e" }
Ids == { 1, 2 }
NoDoc == "none"

TextLetXY ==
    << "l", "e", "t", " ", "x", " ", "=", " ", "1", "\n",
       "l", "e", "t", " ", "y" >>
TextLetY == << "l", "e", "t", " ", "y", " ", "=", " " >>
TextBab == << "b", " ", "a", " ", "b", "\r", "\n" >>
TextAccent == << "C3", "A9", "a", " ", "a" >>
TextFoo == << "f", "o", "o", "_", "1", " ", "+", " ", "b", "a", "r" >>

OpenTexts == { TextLetXY, TextBab, TextAccent }
ChangeLists == { << >>, << TextLetY >>, << TextBab, TextLetXY >> }
\* cursor positions <<line, character>>
Positions == { <<0, 1>>, <<0, 5>>, <<0, 7>>, <<1, 0>>, <<1, 7>> }

Message(kind, id, method, wellFormed, uri, line, character, text, changes) ==
    [kind |-> kind, id |-> id, method |-> method, wellFormed |-> wellFormed,
     uri |-> uri, line |-> line, character |-> character, text |-> text,
     content_changes |-> changes]

Request(id, method, wellFormed, uri, line, character) ==
    Message("Request", id, method, wellFormed, uri, line, character,
            << >>, << >>)

Notification(method, wellFormed, uri, text, changes) ==
    Message("Notification", 0, method, wellFormed, uri, 0, 0, text, changes)

ShutdownRequests == { Request(id, "shutdown", TRUE, NoDoc, 0, 0) : id \in Ids }

CompletionRequests ==
    { Request(id, "textDocument/completion", TRUE, d, p[1], p[2]) :
        id \in Ids, d \in Docs, p \in Positions }

MalformedCompletionRequests ==
    { Request(1, "textDocument/completion", FALSE, NoDoc, 0, 0) }

OtherRequests == { Request(1, "textDocument/hover", TRUE, NoDoc, 0, 0) }

Responses == { Message("Response", 1, "", TRUE, NoDoc, 0, 0, << >>, << >>) }

DidOpenNotifications ==
    { Notification("textDocument/didOpen", TRUE, d, t, << >>) :
        d \in Docs, t \in OpenTexts }

DidChangeNotifications ==
    { Notification("textDocument/didChange", TRUE, d, << >>, c) :
        d \in Docs, c \in ChangeLists }

MalformedNotifications ==
    { Notification(m, FALSE, NoDoc, << >>, << >>) :
        m \in { "textDocument/didOpen", "textDocument/didChange" } }

ExitNotification == Notification("exit", TRUE, NoDoc, << >>, << >>)

OtherNotifications ==
    { ExitNotification, Notification("initialized", TRUE, NoDoc, << >>, << >>) }

Messages ==
    ShutdownRequests \cup CompletionRequests \cup MalformedCompletionRequests
    \cup OtherRequests \cup Responses \cup DidOpenNotifications
    \cup DidChangeNotifications \cup MalformedNotifications
    \cup OtherNotifications

(***************************************************************************)
(* Request::extract / Notification::extract behind cast_req and cast_not   *)
(* (main.rs:215-231): the method name is compared first, then the params   *)
(* are deserialized.                                                       *)
(***************************************************************************)
Extract(m, method) ==
    IF m.method # method THEN "MethodMismatch"
    ELSE IF m.wellFormed THEN "Ok" ELSE "JsonError"

cast_req(m) == Extract(m, "textDocument/completion")
cast_not_open(m) == Extract(m, "textDocument/didOpen")
cast_not_change(m) == Extract(m, "textDocument/didChange")

\* Request::is_shutdown, tested by Connection::handle_shutdown
IsShutdown(m) == m.method = "shutdown"

(***************************************************************************)
(* The document map (main.rs:103) and the outbound messages.               *)
(***************************************************************************)
\* a variant that holds one document: the other entries are discarded
InsertOnly(map, uri, text) == [d \in {uri} |-> text]

\* a variant that keeps the text of an entry that exists
InsertIfAbsent(map, uri, text) ==
    [d \in (DOMAIN map) \cup {uri} |->
        IF d \in DOMAIN map THEN map[d] ELSE text]

\* HashMap::insert: the entry of uri is created or overwritten
Insert(map, uri, text) ==
    [d \in (DOMAIN map) \cup {uri} |-> IF d = uri THEN text ELSE map[d]]

\* a variant that stores the last entry of the notification
LastChange(content_changes) == content_changes[Len(content_changes)]

\* content_changes.first(): the entry whose text is stored (main.rs:183)
FirstChange(content_changes) == content_changes[1]

\* the Response of main.rs:150-154
CompletionResponse(id, words) ==
    [id |-> id, result |-> [tag |-> "Array", items |-> CompletionArray(words)],
     error |-> "None"]

\* Response::new_ok(id, ()) sent by handle_shutdown
ShutdownResponse(id) ==
    [id |-> id, result |-> [tag |-> "Null", items |-> << >>], error |-> "None"]

\* the labels a response carries
Labels(resp) == [i \in 1..Len(resp.result.items) |-> resp.result.items[i].label]

(***************************************************************************)
(* The session: main_loop (main.rs:98-195).                                *)
(***************************************************************************)
NotScanned == [done |-> FALSE, items |-> << >>]

Init ==
    /\ state = "Running"
    /\ contents = << >>
    /\ sent = << >>
    /\ log = << >>
    /\ answered = << >>
    /\ lexSrc = << >>
    /\ lexOut = NotScanned

\* main_loop has returned or panicked: its local `contents` is dropped
Dropped == << >>

\* log is the history of the messages taken from connection.receiver, and
\* answered[i] is the index in sent of the response that the step which took
\* log[i] has sent, or 0 when that step sent none
Logged(m) ==
    /\ log' = Append(log, m)
    /\ answered' = Append(answered, IF sent' = sent THEN 0 ELSE Len(sent'))
    /\ UNCHANGED <<lexSrc, lexOut>>

\* a variant that reports the error and goes on with the next message
ContinuesAfterError == UNCHANGED <<state, contents, sent>>

\* a panic unwinds main_loop: the session aborts and sends nothing more
Panics ==
    /\ state' = "Aborted"
    /\ contents' = Dropped
    /\ UNCHANGED sent

\* the for loop takes the next message (main.rs:105)
Receives(m) ==
    /\ state = "Running"
    /\ Len(log) < MaxMsgs

\* a variant that acknowledges the shutdown request and keeps the loop going
HandleShutdownKeepsRunning ==
    \E m \in ShutdownRequests :
        /\ Receives(m)
        /\ IsShutdown(m)
        /\ sent' = Append(sent, ShutdownResponse(m.id))
        /\ UNCHANGED <<state, contents>>
        /\ Logged(m)

\* main.rs:109-111 and Connection::handle_shutdown: the shutdown request is
\* acknowledged and the session waits for the exit notification
HandleShutdown ==
    \E m \in ShutdownRequests :
        /\ Receives(m)
        /\ IsShutdown(m)
        /\ sent' = Append(sent, ShutdownResponse(m.id))
        /\ state' = "ShuttingDown"
        /\ UNCHANGED contents
        /\ Logged(m)

\* handle_shutdown got the exit notification: main_loop returns Ok(())
ShutdownExit ==
    /\ state = "ShuttingDown"
    /\ Len(log) < MaxMsgs
    /\ state' = "Terminated"
    /\ contents' = Dropped
    /\ UNCHANGED sent
    /\ Logged(ExitNotification)

\* handle_shutdown got another message: main_loop returns the error
ShutdownUnexpected ==
    \E m \in Messages \ {ExitNotification} :
        /\ state = "ShuttingDown"
        /\ Len(log) < MaxMsgs
        /\ state' = "Failed"
        /\ contents' = Dropped
        /\ UNCHANGED sent
        /\ Logged(m)

\* handle_shutdown timed out or the channel was disconnected
ShutdownTimeout ==
    /\ state = "ShuttingDown"
    /\ state' = "Failed"
    /\ contents' = Dropped
    /\ UNCHANGED <<sent, log, answered, lexSrc, lexOut>>

\* the receiver is disconnected: the for loop ends (main.rs:193-194)
Disconnect ==
    /\ state = "Running"
    /\ state' = "Terminated"
    /\ contents' = Dropped
    /\ UNCHANGED <<sent, log, answered, lexSrc, lexOut>>

\* a variant that takes the empty text for a document that is not stored
HandleCompletionDefaultText ==
    \E m \in CompletionRequests :
        /\ Receives(m)
        /\ ~ IsShutdown(m)
        /\ cast_req(m) = "Ok"
        /\ LET text == IF m.uri \in DOMAIN contents
                       THEN contents[m.uri] ELSE << >>
               r == pos_to_words_of_line(m.line, m.character, text)
           IN  CASE r.tag = "Panic" -> Panics
                 [] r.tag = "None" ->
                       UNCHANGED <<state, contents, sent>>
                 [] r.tag = "Some" ->
                       /\ sent' = Append(sent,
                              CompletionResponse(m.id,
                                  IndexSetCollect(r.words)))
                       /\ UNCHANGED <<state, contents>>
        /\ Logged(m)

\* main.rs:113-157: a completion request
HandleCompletion ==
    \E m \in CompletionRequests :
        /\ Receives(m)
        /\ ~ IsShutdown(m)
        /\ cast_req(m) = "Ok"
        /\ IF m.uri \notin DOMAIN contents
           THEN \* contents.get(&file).expect("We trust the LSP")
                Panics
           ELSE LET r == pos_to_words_of_line(m.line, m.character,
                                              contents[m.uri])
                IN  CASE r.tag = "Panic" -> Panics
                      [] r.tag = "None" ->
                            UNCHANGED <<state, contents, sent>>
                      [] r.tag = "Some" ->
                            /\ sent' = Append(sent,
                                   CompletionResponse(m.id,
                                       IndexSetCollect(r.words)))
                            /\ UNCHANGED <<state, contents>>
        /\ Logged(m)

\* main.rs:158: the params of a completion request do not deserialize
CompletionJsonError ==
    \E m \in MalformedCompletionRequests :
        /\ Receives(m)
        /\ ~ IsShutdown(m)
        /\ cast_req(m) = "JsonError"
        /\ Panics
        /\ Logged(m)

\* a variant that answers an unknown request with an error response
RequestMethodMismatchReplies ==
    \E m \in OtherRequests :
        /\ Receives(m)
        /\ ~ IsShutdown(m)
        /\ cast_req(m) = "MethodMismatch"
        /\ sent' = Append(sent, [id |-> m.id,
                                  result |-> [tag |-> "Null", items |-> << >>],
                                  error |-> "MethodNotFound"])
        /\ UNCHANGED <<state, contents>>
        /\ Logged(m)

\* main.rs:159: any other request
RequestMethodMismatch ==
    \E m \in OtherRequests :
        /\ Receives(m)
        /\ ~ IsShutdown(m)
        /\ cast_req(m) = "MethodMismatch"
        /\ UNCHANGED <<state, contents, sent>>
        /\ Logged(m)

\* main.rs:162-164
HandleResponse ==
    \E m \in Responses :
        /\ Receives(m)
        /\ UNCHANGED <<state, contents, sent>>
        /\ Logged(m)

\* main.rs:167-174
DidOpen ==
    \E m \in DidOpenNotifications :
        /\ Receives(m)
        /\ cast_not_open(m) = "Ok"
        /\ contents' = Insert(contents, m.uri, m.text)
        /\ UNCHANGED <<state, sent>>
        /\ Logged(m)

\* a variant that stores the empty text when there is no entry
DidChangeDefaultText ==
    \E m \in DidChangeNotifications :
        /\ Receives(m)
        /\ cast_not_open(m) = "MethodMismatch"
        /\ cast_not_change(m) = "Ok"
        /\ contents' = Insert(contents, m.uri,
                              IF m.content_changes = << >> THEN << >>
                              ELSE FirstChange(m.content_changes))
        /\ UNCHANGED <<state, sent>>
        /\ Logged(m)

\* main.rs:178-187
DidChange ==
    \E m \in DidChangeNotifications :
        /\ Receives(m)
        /\ cast_not_open(m) = "MethodMismatch"
        /\ cast_not_change(m) = "Ok"
        /\ IF m.content_changes = << >>
           THEN \* content_changes.first().unwrap()
                Panics
           ELSE /\ contents' = Insert(contents, m.uri,
                                      FirstChange(m.content_changes))
                /\ UNCHANGED <<state, sent>>
        /\ Logged(m)

\* main.rs:175 and main.rs:188
NotificationJsonError ==
    \E m \in MalformedNotifications :
        /\ Receives(m)
        /\ \/ cast_not_open(m) = "JsonError"
           \/ /\ cast_not_open(m) = "MethodMismatch"
              /\ cast_not_change(m) = "JsonError"
        /\ Panics
        /\ Logged(m)

\* a variant that returns from main_loop on the exit notification
NotificationMethodMismatchExits ==
    \E m \in OtherNotifications :
        /\ Receives(m)
        /\ cast_not_open(m) = "MethodMismatch"
        /\ cast_not_change(m) = "MethodMismatch"
        /\ IF m = ExitNotification
           THEN state' = "Terminated" /\ contents' = Dropped
           ELSE UNCHANGED <<state, contents>>
        /\ UNCHANGED sent
        /\ Logged(m)

\* main.rs:189: any other notification
NotificationMethodMismatch ==
    \E m \in OtherNotifications :
        /\ Receives(m)
        /\ cast_not_open(m) = "MethodMismatch"
        /\ cast_not_change(m) = "MethodMismatch"
        /\ UNCHANGED <<state, contents, sent>>
        /\ Logged(m)

Next ==
    \/ HandleShutdown
    \/ ShutdownExit
    \/ ShutdownUnexpected
    \/ ShutdownTimeout
    \/ Disconnect
    \/ HandleCompletion
    \/ CompletionJsonError
    \/ RequestMethodMismatch
    \/ HandleResponse
    \/ DidOpen
    \/ DidChange
    \/ NotificationJsonError
    \/ NotificationMethodMismatch

Spec == Init /\ [][Next]_vars

(***************************************************************************)
(* The lexer on its own: every valid string of at most MaxLen bytes over   *)
(* LexAlphabet, and the texts of the session, is tokenized.                *)
(***************************************************************************)
LexAlphabet == { "a", "_", " ", "+", "\n", "C3", "A9" }

LexInputs ==
    { s \in UNION { [1..n -> LexAlphabet] : n \in 0..MaxLen } : ValidUtf8(s) }
    \cup { TextFoo, TextLetXY, TextLetY, TextBab, TextAccent }

InitLex ==
    /\ state = "Running"
    /\ contents = << >>
    /\ sent = << >>
    /\ log = << >>
    /\ answered = << >>
    /\ lexSrc \in LexInputs
    /\ lexOut = NotScanned

Tokenize ==
    /\ ~ lexOut.done
    /\ lexOut' = [done |-> TRUE, items |-> Lexer(lexSrc)]
    /\ UNCHANGED <<state, contents, sent, log, answered, lexSrc>>

NextLex == Tokenize

LexSpec == InitLex /\ [][NextLex]_vars

(***************************************************************************)
(* Properties.                                                             *)
(***************************************************************************)
IsCompletion(m) ==
    m.kind = "Request" /\ m.method = "textDocument/completion" /\ m.wellFormed

IsDidOpen(m) ==
    m.kind = "Notification" /\ m.method = "textDocument/didOpen" /\ m.wellFormed

IsDidChange(m) ==
    m.kind = "Notification" /\ m.method = "textDocument/didChange"
    /\ m.wellFormed

\* the message taken by the last step that took one
LastMsg == log[Len(log)]

\* the indexes of the log at which a notification for d that carries a text
\* was taken
Notified(d) ==
    { i \in 1..Len(log) :
        /\ log[i].uri = d
        /\ \/ IsDidOpen(log[i])
           \/ IsDidChange(log[i]) /\ log[i].content_changes # << >> }

Latest(S) == CHOOSE i \in S : \A j \in S : j <= i

\* the text a notification carries: the full text of an open notification,
\* the first content-replacement entry of a change notification
CarriedText(m) == IF IsDidOpen(m) THEN m.text ELSE m.content_changes[1]

\* C1: for every document identifier in the Document Store, the stored text
\* is the text carried by the most recent open or change notification for
\* that identifier: the full text of an open notification, the first
\* content-replacement entry of a change notification (later entries are
\* ignored and no earlier text is merged in).
C1_StoredTextIsLatestNotified ==
    \A d \in DOMAIN contents :
        /\ Notified(d) # {}
        /\ contents[d] = CarriedText(log[Latest(Notified(d))])

\* a change notification with two entries has replaced an opened text
C1_Witness ==
    /\ state = "Running"
    /\ Len(log) = 2
    /\ IsDidOpen(log[1])
    /\ IsDidChange(LastMsg)
    /\ Len(LastMsg.content_changes) = 2
    /\ LastMsg.uri = log[1].uri
    /\ contents[LastMsg.uri] = LastMsg.content_changes[1]
    /\ contents[LastMsg.uri] # log[1].text

\* C2: the Document Store never contains an entry for a document identifier
\* that has not previously received an open notification.
C2_OnlyOpenedDocumentsStored ==
    \A d \in DOMAIN contents :
        \E i \in 1..Len(log) : IsDidOpen(log[i]) /\ log[i].uri = d

(***************************************************************************)
(* Steps of the session that take a completion request.                    *)
(***************************************************************************)
\* this step takes the message m while the session is Running
TakesRunning(m) == state = "Running" /\ log' = Append(log, m)

\* the lines of the stored text of the document m names
StoredLines(m) == Lines(contents[m.uri])

\* the line m selects, and its prefix of m.character bytes
SelectedLine(m) == StoredLines(m)[m.line + 1]
LinePrefix(m) == SubSeq(SelectedLine(m), 1, m.character)

HasLine(m) == m.uri \in DOMAIN contents /\ m.line < Len(StoredLines(m))

Range(f) == { f[i] : i \in DOMAIN f }

\* the contents of the tokens of a kind that the Tokenizer produces for s
TokenSet(s, kind) == { t.slice : t \in { u \in Range(Lexer(s)) : u.kind = kind } }

\* the Word tokens of s in the order of the scan
WordSeq(s) ==
    LET IsWord(t) == t.kind = "Word"
        ws == SelectSeq(Lexer(s), IsWord)
    IN  [i \in 1..Len(ws) |-> ws[i].slice]

\* this step appends exactly one response to sent
SendsOne == Len(sent') = Len(sent) + 1 /\ SubSeq(sent', 1, Len(sent)) = sent

Sent == sent'[Len(sent')]

\* C3: for a stored text and a cursor position strictly within bounds (line
\* index smaller than the number of lines, character offset smaller than the
\* length of that line) the set of labels of the completion response is the
\* set of distinct Word tokens of the prefix of the line that ends at the
\* offset, and holds no Symbol token's content.
C3_LabelsAreWordsOfPrefix ==
    [][\A m \in CompletionRequests :
          (TakesRunning(m) /\ HasLine(m) /\ m.character < Len(SelectedLine(m)))
          => /\ SendsOne
             /\ Range(Labels(Sent)) = TokenSet(LinePrefix(m), "Word")
             /\ Range(Labels(Sent)) \cap TokenSet(LinePrefix(m), "Symbol") = {}
      ]_vars

\* the index of the first occurrence of w in the sequence ws
FirstIndex(ws, w) == CHOOSE i \in 1..Len(ws) : ws[i] = w /\ \A j \in 1..(i - 1) : ws[j] # w

\* the candidate list labs lists words of ws, none twice, in the order of
\* their first occurrence in ws
FirstSeenOrder(labs, ws) ==
    /\ \A a \in 1..Len(labs) : labs[a] \in Range(ws)
    /\ \A a, b \in 1..Len(labs) :
          a < b => FirstIndex(ws, labs[a]) < FirstIndex(ws, labs[b])

\* no open or change notification was taken strictly between i and j
NoNotificationBetween(i, j) ==
    \A k \in (i + 1)..(j - 1) : ~ IsDidOpen(log[k]) /\ ~ IsDidChange(log[k])

\* log[j] was taken by the loop of main_loop, not by handle_shutdown while
\* it waited for the exit notification
TakenByLoop(j) == \A k \in 1..(j - 1) : ~ IsShutdown(log[k])

\* two equal completion requests that the loop took with no notification
\* between them were answered with the same candidate list
SameRequestsSameLists ==
    \A i, j \in 1..Len(log) :
        (/\ i < j
         /\ IsCompletion(log[i])
         /\ log[i] = log[j]
         /\ NoNotificationBetween(i, j)
         /\ TakenByLoop(j)
         /\ answered[i] # 0)
        => /\ answered[j] # 0
           /\ sent[answered[j]].result = sent[answered[i]].result

\* C4: the candidate list of a completion response holds no two equal
\* labels, in the order of the first occurrence of each word in the line
\* prefix; two identical completion requests with no open or change
\* notification between them yield identical candidate lists.
C4_DistinctLabelsInFirstSeenOrder ==
    [][/\ \A m \in CompletionRequests :
             (TakesRunning(m) /\ sent' # sent)
             => /\ SendsOne
                /\ HasLine(m)
                /\ FirstSeenOrder(Labels(Sent), WordSeq(LinePrefix(m)))
                /\ \A a, b \in 1..Len(Labels(Sent)) :
                      a # b => Labels(Sent)[a] # Labels(Sent)[b]
       /\ SameRequestsSameLists'
      ]_vars

\* a response whose line prefix repeats a word, then the same request again
C4_Witness ==
    /\ Len(log) = 3
    /\ IsDidOpen(log[1])
    /\ log[1].text = TextBab
    /\ IsCompletion(log[2])
    /\ log[2] = log[3]
    /\ log[2].character = 5
    /\ answered[2] = 1
    /\ answered[3] = 2
    /\ Labels(sent[1]) = << <<"b">>, <<"a">> >>

\* "no completions": the step sends nothing, or one response with an empty
\* candidate list and no error
NoCompletions ==
    \/ sent' = sent
    \/ /\ SendsOne
       /\ Sent.error = "None"
       /\ Sent.result.items = << >>

\* C5: a completion request for an opened document whose line index is in
\* range but whose character offset exceeds the length of that line yields
\* "no completions" and not an error: the session stays Running.
C5_OffsetBeyondLineYieldsNoCompletions ==
    [][\A m \in CompletionRequests :
          (TakesRunning(m) /\ HasLine(m) /\ m.character > Len(SelectedLine(m)))
          => /\ NoCompletions
             /\ state' = "Running"
      ]_vars

\* C6: a completion request whose line index is beyond the last line of the
\* stored text yields an empty or absent result and not an error: no error
\* response is emitted, the session stays Running and the Document Store is
\* unchanged.
C6_LineBeyondTextYieldsNoCompletions ==
    [][\A m \in CompletionRequests :
          (/\ TakesRunning(m)
           /\ m.uri \in DOMAIN contents
           /\ m.line >= Len(StoredLines(m)))
          => /\ NoCompletions
             /\ state' = "Running"
             /\ contents' = contents
      ]_vars

\* a request beyond the last line was taken, and the request after it was
\* answered
C6_Witness ==
    /\ Len(log) = 3
    /\ state = "Running"
    /\ IsCompletion(log[2])
    /\ log[2].uri \in DOMAIN contents
    /\ log[2].line >= Len(StoredLines(log[2]))
    /\ answered[2] = 0
    /\ IsCompletion(log[3])
    /\ answered[3] = 1

\* the message sequence of the example, with the completion request at the
\* given line
LetSequence(id, line) ==
    << Notification("textDocument/didOpen", TRUE, "file:///d", TextLetXY, << >>),
       Notification("textDocument/didChange", TRUE, "file:///d", << >>,
                    << TextLetY >>),
       Request(id, "textDocument/completion", TRUE, "file:///d", line, 7) >>

\* the session has answered the request id with exactly "let" and "y"
AnsweredLetY(id) ==
    /\ Len(sent) = 1
    /\ sent[1].id = id
    /\ sent[1].error = "None"
    /\ Labels(sent[1]) = << <<"l", "e", "t">>, <<"y">> >>

\* C7: after open d "let x = 1\nlet y", change d to "let y = ", completion
\* request for d at line 1, character 7, the session answers the request
\* with the candidates "let" and "y" in that order, without "=".
C7_AnswersLetYAtLineOne ==
    \A id \in Ids : log = LetSequence(id, 1) => AnsweredLetY(id)

\* C7 as amended: the same sequence with the request at line 0, character 7
\* (the changed text has the single line "let y = ") is answered with the
\* candidates "let" and "y" in that order, without "=".
C7_AnswersLetYAtLineZero ==
    \A id \in Ids : log = LetSequence(id, 0) => AnsweredLetY(id)

C7_Witness == log = LetSequence(1, 0) /\ answered = << 0, 0, 1 >>

(***************************************************************************)
(* Properties of the Tokenizer, checked under LexSpec.                     *)
(***************************************************************************)
RECURSIVE Concat(_)
Concat(slices) ==
    IF slices = << >> THEN << >> ELSE Head(slices) \o Concat(Tail(slices))

Slices(items) == [i \in 1..Len(items) |-> items[i].slice]

\* C8: the spans of the tokens the Tokenizer produces, concatenated in
\* order, are the input string: no character is skipped, none is in two
\* tokens, and no scan error is produced.
C8_TokensCoverInput ==
    lexOut.done =>
        /\ Concat(Slices(lexOut.items)) = lexSrc
        /\ \A i \in 1..Len(lexOut.items) :
              /\ lexOut.items[i].kind # "Error"
              /\ lexOut.items[i].slice # << >>

\* a string of word bytes, symbols and a two-byte character was tokenized
C8_Witness ==
    /\ lexOut.done
    /\ lexSrc = << "a", " ", "C3", "A9" >>
    /\ Len(lexOut.items) = 3

\* the indexes of s where a maximal run of word bytes starts
RunStarts(s) ==
    { i \in 1..Len(s) :
        s[i] \in WordChars /\ (i = 1 \/ s[i - 1] \notin WordChars) }

\* the indexes of s where a character that is not a word byte starts
SymbolStarts(s) ==
    { i \in 1..Len(s) : s[i] \notin WordChars /\ s[i] \notin ContBytes }

OfKind(items, kind) == { i \in 1..Len(items) : items[i].kind = kind }

\* C9: the Tokenizer emits exactly one Word token for each maximal run of
\* bytes in [a-zA-Z_0-9] (two Word tokens are never adjacent) and exactly
\* one Symbol token of one character for every other character; "foo_1 + bar"
\* yields Word("foo_1"), Symbol(" "), Symbol("+"), Symbol(" "), Word("bar").
C9_OneWordPerRunOneSymbolPerCharacter ==
    lexOut.done =>
        LET items == lexOut.items
        IN  /\ \A i \in 1..Len(items) : items[i].kind \in { "Word", "Symbol" }
            /\ \A i \in OfKind(items, "Word") :
                  /\ items[i].slice # << >>
                  /\ \A k \in 1..Len(items[i].slice) :
                        items[i].slice[k] \in WordChars
            /\ \A i \in OfKind(items, "Symbol") :
                  /\ items[i].slice # << >>
                  /\ items[i].slice[1] \notin WordChars
                  /\ Len(items[i].slice) = CharWidth(items[i].slice[1])
            /\ \A i \in 1..(Len(items) - 1) :
                  ~ (items[i].kind = "Word" /\ items[i + 1].kind = "Word")
            /\ Cardinality(OfKind(items, "Word")) = Cardinality(RunStarts(lexSrc))
            /\ Cardinality(OfKind(items, "Symbol"))
                  = Cardinality(SymbolStarts(lexSrc))
            /\ lexSrc = TextFoo =>
                  items = << [kind |-> "Word", slice |-> <<"f", "o", "o", "_", "1">>],
                             [kind |-> "Symbol", slice |-> <<" ">>],
                             [kind |-> "Symbol", slice |-> <<"+">>],
                             [kind |-> "Symbol", slice |-> <<" ">>],
                             [kind |-> "Word", slice |-> <<"b", "a", "r">>] >>

C9_Witness == lexOut.done /\ lexSrc = TextFoo /\ Len(lexOut.items) = 5

(***************************************************************************)
(* Order of the responses.                                                 *)
(***************************************************************************)
\* the position of m is in range: the line exists and the offset does not
\* exceed its length
InRange(m) == HasLine(m) /\ m.character <= Len(SelectedLine(m))

\* the text of d according to the notifications taken so far
NotifiedText(d) == CarriedText(log[Latest(Notified(d))])

\* the responses were sent in the order in which their requests were taken
AnswersInArrivalOrder ==
    \A i, j \in 1..Len(log) :
        (i < j /\ answered[i] # 0 /\ answered[j] # 0)
        => answered[i] < answered[j]

\* the step that takes the completion request m answers it, once, from the
\* text that the notifications taken before m have left
AnswersFromEarlierNotifications(m) ==
    /\ SendsOne
    /\ Sent.id = m.id
    /\ Sent.error = "None"
    /\ Notified(m.uri) # {}
    /\ LET prefix == SubSeq(Lines(NotifiedText(m.uri))[m.line + 1],
                            1, m.character)
       IN  Labels(Sent) = IndexSetCollect(WordSeq(prefix))

\* C10: every completion request that names a stored document and an
\* in-range position is answered by exactly one response with the id of the
\* request and no error; responses are emitted in the arrival order of
\* their requests, each computed from the Document Store as left by the
\* notifications that arrived before the request.
C10_InRangeRequestsAnsweredInOrder ==
    [][/\ \A m \in CompletionRequests :
             (TakesRunning(m) /\ InRange(m))
             => AnswersFromEarlierNotifications(m)
       /\ AnswersInArrivalOrder'
      ]_vars

(***************************************************************************)
(* Shutdown, malformed and unknown messages.                               *)
(***************************************************************************)
\* this step writes no entry of the Document Store: every entry it leaves
\* was there before with the same text
WritesNoEntry ==
    \A d \in DOMAIN contents' : d \in DOMAIN contents /\ contents'[d] = contents[d]

\* a shutdown request was taken before log[j]
AfterShutdown(j) == \E k \in 1..(j - 1) : IsShutdown(log[k])

\* C11: a shutdown request that arrives in Running is acknowledged and the
\* session leaves Running, the request not being taken for a completion
\* request; no message that arrives after the shutdown request mutates the
\* Document Store or produces a completion response.
C11_ShutdownAcknowledgedAndFinal ==
    [][/\ \A m \in ShutdownRequests :
             TakesRunning(m)
             => /\ SendsOne
                /\ Sent = ShutdownResponse(m.id)
                /\ state' = "ShuttingDown"
                /\ contents' = contents
       /\ (state # "Running" /\ log' # log)
             => /\ sent' = sent
                /\ WritesNoEntry
       /\ \A j \in 1..Len(log') : AfterShutdown(j)' => answered'[j] = 0
      ]_vars

\* a document was opened, the session was shut down, and a completion
\* request for the document arrived after that
C11_Witness ==
    /\ Len(log) = 3
    /\ IsDidOpen(log[1])
    /\ IsShutdown(log[2])
    /\ IsCompletion(log[3])
    /\ log[3].uri = log[1].uri
    /\ log[3].line = 0
    /\ log[3].character = 1
    /\ answered = << 0, 1, 0 >>
    /\ state = "Failed"

\* the method names the core recognizes besides shutdown
RecognizedMethods ==
    { "textDocument/completion", "textDocument/didOpen",
      "textDocument/didChange" }

\* C12: a message with a method name the core recognizes whose payload does
\* not have the shape of that method is fatal: the session aborts, emits no
\* response for the message, and processes no later message.
C12_MalformedPayloadIsFatal ==
    [][/\ \A m \in Messages :
             (/\ TakesRunning(m)
              /\ m.method \in RecognizedMethods
              /\ ~ m.wellFormed)
             => /\ state' = "Aborted"
                /\ sent' = sent
       /\ state = "Aborted" => vars' = vars
      ]_vars

\* a malformed change notification has ended a session that had a document
C12_Witness ==
    /\ Len(log) = 2
    /\ IsDidOpen(log[1])
    /\ log[2].method = "textDocument/didChange"
    /\ ~ log[2].wellFormed
    /\ state = "Aborted"
    /\ sent = << >>

\* a message the core does not react to: a response, a notification other
\* than document-opened and document-changed, a request other than shutdown
\* and completion
IsUnhandled(m) ==
    \/ m.kind = "Response"
    \/ /\ m.kind = "Notification"
       /\ m.method \notin { "textDocument/didOpen", "textDocument/didChange" }
    \/ /\ m.kind = "Request"
       /\ m.method \notin { "shutdown", "textDocument/completion" }

\* C13: every inbound response, notification other than document-opened and
\* document-changed, and request other than shutdown and completion is a
\* no-op: the session stays Running, the Document Store is unchanged and no
\* outbound message is emitted.
C13_UnhandledMessagesAreNoOps ==
    [][\A m \in Messages :
          (TakesRunning(m) /\ IsUnhandled(m))
          => /\ state' = "Running"
             /\ contents' = contents
             /\ sent' = sent
      ]_vars

\* an unknown request was taken between the opening of a document and a
\* completion request that was answered
C13_Witness ==
    /\ Len(log) = 3
    /\ IsDidOpen(log[1])
    /\ log[2].kind = "Request"
    /\ IsUnhandled(log[2])
    /\ IsCompletion(log[3])
    /\ answered = << 0, 0, 1 >>
    /\ state = "Running"
    /\ log[1].uri \in DOMAIN contents

(***************************************************************************)
(* Violations of the caller's contract.                                    *)
(***************************************************************************)
\* C14: a completion request that names a document identifier which is not
\* in the Document Store is a fatal assertion: the session aborts without
\* sending a response, whatever the requested position is.
C14_MissingDocumentIsFatal ==
    [][\A m \in CompletionRequests :
          (TakesRunning(m) /\ m.uri \notin DOMAIN contents)
          => /\ state' = "Aborted"
             /\ sent' = sent
      ]_vars

\* a document is stored, and a request for the other document, at a
\* position that no stored text has, has aborted the session
C14_Witness ==
    /\ Len(log) = 2
    /\ IsDidOpen(log[1])
    /\ log[1].text = TextBab
    /\ IsCompletion(log[2])
    /\ log[2].uri # log[1].uri
    /\ log[2].line = 1
    /\ log[2].character = 7
    /\ state = "Aborted"
    /\ sent = << >>

\* C15: a document-changed notification with zero content-replacement
\* entries fails loudly: the session aborts, and no fallback text (the empty
\* string, the previous text stored again) is written to the Document Store.
C15_EmptyChangeListIsFatal ==
    [][\A m \in DidChangeNotifications :
          (TakesRunning(m) /\ m.content_changes = << >>)
          => /\ state' = "Aborted"
             /\ sent' = sent
             /\ m.uri \notin DOMAIN contents'
             /\ WritesNoEntry
      ]_vars

\* an empty change list for a stored document has aborted the session
C15_Witness ==
    /\ Len(log) = 2
    /\ IsDidOpen(log[1])
    /\ IsDidChange(log[2])
    /\ log[2].content_changes = << >>
    /\ log[2].uri = log[1].uri
    /\ state = "Aborted"

\* C16: a completion request for a stored document at an in-range position
\* whose line prefix holds no Word token is answered with a response whose
\* candidate list is empty; the response is absent only when the line index
\* is out of range.
C16_EmptyPrefixAnsweredAbsentOnlyWithoutLine ==
    [][\A m \in CompletionRequests :
          (TakesRunning(m) /\ m.uri \in DOMAIN contents)
          => /\ (/\ InRange(m)
                 /\ IsCharBoundary(SelectedLine(m), m.character)
                 /\ WordSeq(LinePrefix(m)) = << >>)
                => /\ SendsOne
                   /\ Sent.id = m.id
                   /\ Sent.result.tag = "Array"
                   /\ Sent.result.items = << >>
             /\ sent' = sent => ~ HasLine(m)
      ]_vars

(***************************************************************************)
(* End of the session.                                                     *)
(***************************************************************************)
NoShutdownTaken == \A i \in 1..Len(log) : ~ IsShutdown(log[i])

\* C17: absent a fatal error the session reaches Terminated only from
\* ShuttingDown: while Running it never terminates unless a shutdown request
\* has been received, also when the transport disconnects while the session
\* is Running.
C17_TerminatedOnlyAfterShutdown ==
    state = "Terminated" => ~ NoShutdownTaken

\* main_loop has returned, with Ok(()) or with the error of handle_shutdown
Ended == state \in { "Terminated", "Failed" }

\* C17 as amended: absent a fatal error the session ends only from
\* ShuttingDown (Terminated on the exit notification) or, when the transport
\* disconnects, directly from Running; no message taken while Running ends
\* it, and only a shutdown request makes it leave Running for ShuttingDown.
C17_EndsFromShuttingDownOrOnDisconnect ==
    [][/\ (~ Ended /\ Ended')
             => \/ state = "ShuttingDown"
                \/ state = "Running" /\ log' = log /\ state' = "Terminated"
       /\ (state = "ShuttingDown" /\ state' = "Terminated")
             => log' = Append(log, ExitNotification)
       /\ \A m \in Messages :
             TakesRunning(m)
             => \/ state' \in { "Running", "Aborted" }
                \/ IsShutdown(m) /\ state' = "ShuttingDown"
      ]_vars

\* the transport was disconnected while the session was Running, after a
\* document was opened and with no shutdown request
C17_Witness ==
    /\ state = "Terminated"
    /\ Len(log) = 2
    /\ IsDidOpen(log[1])
    /\ log[2] = ExitNotification
    /\ NoShutdownTaken

(***************************************************************************)
(* The end of a line and the end of the text.                              *)
(***************************************************************************)
\* C18: a completion request whose character offset equals the length of the
\* selected line does not fail: the prefix is the whole line and the
\* response lists the distinct words of the whole line; an offset strictly
\* greater than the length of the line is out of range and is not answered.
C18_OffsetAtEndOfLineIsAnswered ==
    [][\A m \in CompletionRequests :
          (TakesRunning(m) /\ HasLine(m))
          => /\ m.character = Len(SelectedLine(m))
                => /\ SendsOne
                   /\ Sent.id = m.id
                   /\ Sent.error = "None"
                   /\ Labels(Sent) = IndexSetCollect(WordSeq(SelectedLine(m)))
                   /\ state' = "Running"
             /\ m.character > Len(SelectedLine(m)) => sent' = sent
      ]_vars

\* the request at the end of the line "b a b" was answered with b and a
C18_Witness ==
    /\ Len(log) = 2
    /\ IsDidOpen(log[1])
    /\ log[1].text = TextBab
    /\ IsCompletion(log[2])
    /\ log[2].uri = log[1].uri
    /\ log[2].line = 0
    /\ log[2].character = 5
    /\ answered = << 0, 1 >>
    /\ Labels(sent[1]) = << <<"b">>, <<"a">> >>

\* main_loop, and with it the Document Store, is alive
Live == state \in { "Running", "ShuttingDown" }

\* C19: the Document Store changes only in a step that processes a
\* document-opened or document-changed notification, and such a step changes
\* only the entry of the identifier of the notification: every other
\* identifier keeps its text, no entry is removed, and completion requests
\* never modify the store.
C19_StoreChangesOnlyByNotifications ==
    [][Live' =>
          /\ \A d \in DOMAIN contents : d \in DOMAIN contents'
          /\ contents' # contents
                => \E m \in DidOpenNotifications \cup DidChangeNotifications :
                      /\ TakesRunning(m)
                      /\ \A d \in DOMAIN contents' :
                            d # m.uri
                            => d \in DOMAIN contents /\ contents'[d] = contents[d]
          /\ \A m \in CompletionRequests :
                log' = Append(log, m) => contents' = contents
      ]_vars

\* two documents were opened and one of them was changed: the other one has
\* kept its text
C19_Witness ==
    /\ Len(log) = 3
    /\ state = "Running"
    /\ IsDidOpen(log[1])
    /\ IsDidOpen(log[2])
    /\ IsDidChange(log[3])
    /\ log[1].uri # log[2].uri
    /\ log[3].uri = log[1].uri
    /\ DOMAIN contents = Docs
    /\ contents[log[2].uri] = log[2].text
    /\ contents[log[1].uri] = log[3].content_changes[1]
    /\ contents[log[1].uri] # log[1].text

\* the number of line terminators of a text
NumNewlines(text) == Cardinality({ i \in 1..Len(text) : text[i] = "\n" })

EndsWithNewline(text) == text # << >> /\ text[Len(text)] = "\n"

\* C20: a trailing line terminator ends the last line and starts no empty
\* one: for a stored text that ends with a newline and has n lines, a
\* completion request at line index n gets no response, while the request
\* right after the last newline of a text with a character after that
\* newline is answered.
C20_TrailingNewlineStartsNoLine ==
    [][\A m \in CompletionRequests :
          (/\ TakesRunning(m)
           /\ m.uri \in DOMAIN contents
           /\ m.line = NumNewlines(contents[m.uri]))
          => /\ EndsWithNewline(contents[m.uri])
                => /\ Len(StoredLines(m)) = m.line
                   /\ sent' = sent
                   /\ state' = "Running"
             /\ (/\ contents[m.uri] # << >>
                 /\ ~ EndsWithNewline(contents[m.uri])
                 /\ m.character = 0)
                => /\ SendsOne
                   /\ Sent.id = m.id
                   /\ state' = "Running"
      ]_vars

\* the request at line 1, character 0 of the one-line text "b a b\r\n" got
\* no response, twice, and the session is still Running
C20_Witness ==
    /\ Len(log) = 3
    /\ IsDidOpen(log[1])
    /\ log[1].text = TextBab
    /\ IsCompletion(log[2])
    /\ log[2].uri = log[1].uri
    /\ log[2].line = 1
    /\ log[2].character = 0
    /\ state = "Running"
    /\ IsCompletion(log[3])
    /\ log[3] = log[2]
    /\ answered = << 0, 0, 0 >>

====
